---- MODULE Spec2Model ----
(***************************************************************************)
(* The session relay of aiMessage (src/server.js): the in-memory maps that *)
(* tie a session id to a pty process, a scrollback buffer, a status and a  *)
(* set of WebSocket observers, together with the tmux backend, the pty     *)
(* processes and the timers the relay's callbacks run on.                  *)
(*                                                                         *)
(* Node runs one callback at a time, so every handler is one atomic action.*)
(* The environment (backend, ptys, clients, clock) supplies the events.    *)
(***************************************************************************)
EXTENDS Integers, Sequences, FiniteSets, TLC

\* ---------------------------------------------------------------- bounds
\* The session ids of the model. Every map of the relay is keyed by id and a
\* handler only touches the entries of its own id (the sweep visits all).
Ids == {"s1"}

MaxWs == 2        \* WebSocket connections accepted over a run
MaxProcs == 2     \* attach ptys spawned over a run
MaxOut == 3       \* bytes the backend program outputs over a run
MaxChunk == 2     \* largest chunk one pty data event carries
MaxIn == 1        \* raw input frames sent by clients over a run
MaxTicks == 1     \* clock advances over a run
TickMs == 31000   \* one clock advance, ms
Epoch == 400000   \* Date.now() when the relay starts, ms

\* SCROLLBACK_SIZE is 100 * 1024 in the source; the model scales it down so
\* that the output of a run exceeds it and trimming happens.
SCROLLBACK_SIZE == 2

\* ------------------------------------------------------ program constants
IDLE_TIMEOUT_MS == 30000
SESSION_CACHE_TTL_MS == 5000

ExitCodes == {0, 1}

VARIABLES
  activeSessions,    \* id -> [status, lastActivity]
  ptyProcesses,      \* id -> index into procs: the registered handle
  scrollbackBuffers, \* id -> sequence of bytes
  wsClients,         \* id -> set of indexes into ws
  lastOutputTime,    \* id -> ms
  lastInputTime,     \* id -> ms
  sessionCache,      \* [set, list]: the cached list(false), once set
  sessionCacheTime,  \* ms
  procs,             \* the attach ptys spawned so far, in spawn order
  creating,          \* id -> detached creates whose exit has not fired
  timers,            \* id -> pending 300 ms attach callbacks
  msgTimers,         \* ids with a pending 1.5 s initial-message callback
  ws,                \* the WebSockets accepted so far, in accept order
  tmuxSessions,      \* ids whose tmux session exists in the backend
  catalog,           \* id -> modified (ms): the on-disk session index
  meta,              \* meta.json sessions: id -> [pinned, archived], sparse
  projects,          \* meta.json projects: the names
  ptySize,           \* index into procs -> the geometry the pty was resized to
  tmuxSize,          \* id -> the geometry the tmux window was resized to
  tmuxResizes,       \* id -> tmux resize-window commands run (history)
  deleted,           \* ids DELETE /sessions/:id was called for (history)
  stopping,          \* shutdown() has run; the process has not exited yet
  frameLog,          \* the frames received so far, in order (history)
  lateDetach,        \* sockets whose close or error handler ran when they
                     \* were in no observer set (history)
  reconnectDelay,    \* a client panel's ps.reconnectDelay, ms, as n / 2^e
  panelWs,           \* the panel's socket: "connecting", "open", or "none"
                     \* while the reconnect timer is pending
  panelExists,       \* panelState has the session id
  liveSockets,       \* sockets of the panel's session, connecting or open
  pendingTimers,     \* reconnect timers armed and neither fired nor cleared
  attempts,          \* connections the panel has started (history)
  fails,             \* disconnects since the last open (history)
  waited,            \* the delay of the last reconnect timer (history)
  allocated,         \* ids crypto.randomUUID has returned
  produced,          \* id -> number of bytes the backend has output
  inSeq,             \* raw input frames sent so far
  written,           \* input frame -> times it was written to a pty (history)
  now,               \* the clock, ms
  outputLog,         \* id -> every byte published for id, in order (history)
  termAt,            \* id -> the pty a done or error status of id is about: the
                     \* pty whose exit set it, or the last one spawned when
                     \* the sweep set it (history)
  env                \* what the environment may do in this run (fixed)

vars == << activeSessions, ptyProcesses, scrollbackBuffers, wsClients,
           lastOutputTime, lastInputTime, sessionCache, sessionCacheTime,
           procs, creating, timers, msgTimers, ws, tmuxSessions, catalog,
           meta, projects, ptySize, tmuxSize, tmuxResizes, frameLog,
           deleted, stopping,
           lateDetach,
           reconnectDelay, panelWs, panelExists, liveSockets,
           pendingTimers, attempts, fails, waited,
           allocated, produced, inSeq, written, now, outputLog,
           termAt, env >>

\* ------------------------------------------------------------ Map helpers
EmptyMap == [x \in {} |-> 0]
Has(m, id) == id \in DOMAIN m
Put(m, id, v) == [x \in (DOMAIN m) \cup {id} |-> IF x = id THEN v ELSE m[x]]
Del(m, id) == [x \in (DOMAIN m) \ {id} |-> m[x]]
Max(a, b) == IF a >= b THEN a ELSE b

\* ------------------------------------------------------------ Scrollback
\* A faulty trim: it keeps the first SCROLLBACK_SIZE bytes.
TrimScrollbackHead(combined) ==
  IF Len(combined) > SCROLLBACK_SIZE
    THEN SubSeq(combined, 1, SCROLLBACK_SIZE)
    ELSE combined

\* appendScrollback: concatenate, then keep the last SCROLLBACK_SIZE bytes.
TrimScrollback(combined) ==
  IF Len(combined) > SCROLLBACK_SIZE
    THEN SubSeq(combined, Len(combined) - SCROLLBACK_SIZE + 1, Len(combined))
    ELSE combined

\* A faulty append: the chunk never reaches the buffer.
appendScrollbackSkip(bufs, id, data) == bufs

appendScrollback(bufs, id, data) ==
  LET buf == IF Has(bufs, id) THEN bufs[id] ELSE << >>
  IN  Put(bufs, id, TrimScrollback(buf \o data))

\* ------------------------------------------------------------- Broadcast
DataFrame(bytes) == [t |-> "data", b |-> bytes, code |-> 0]
ExitFrame(exitCode) == [t |-> "exit", b |-> << >>, code |-> exitCode]

\* A faulty broadcast: readyState is not looked at.
ReceiversAll(clients, sockets, id) ==
  IF Has(clients, id) THEN clients[id] ELSE {}

\* The observers broadcastRaw sends to: the members of the id's set whose
\* readyState is OPEN.
Receivers(clients, sockets, id) ==
  IF Has(clients, id)
    THEN {w \in clients[id] : sockets[w].state = "OPEN"}
    ELSE {}

broadcastRaw(clients, sockets, id, frame) ==
  [w \in DOMAIN sockets |->
     IF w \in Receivers(clients, sockets, id)
       THEN [sockets[w] EXCEPT !.frames = Append(@, frame)]
       ELSE sockets[w]]

\* --------------------------------------------------------- Session index
\* deriveStatus: the live status when the id is in activeSessions, else the
\* heuristic on the age of the catalog entry.
deriveStatus(id, modified) ==
  IF Has(activeSessions, id) THEN activeSessions[id].status
  ELSE IF now - modified < 60000 THEN "running"
  ELSE IF now - modified < 300000 THEN "done"
  ELSE "idle"

\* The flags meta.json holds for id; a flag that is not stored is false.
NoFlags == [pinned |-> FALSE, archived |-> FALSE]
MetaOf(id) == IF Has(meta, id) THEN meta[id] ELSE NoFlags

IndexEntry(id) ==
  [id |-> id,
   status |-> deriveStatus(id, catalog[id]),
   lastActivity |-> IF Has(activeSessions, id)
                      THEN activeSessions[id].lastActivity
                      ELSE catalog[id],
   pinned |-> MetaOf(id).pinned,
   archived |-> MetaOf(id).archived]

\* A faulty order: the pinned flag is ignored.
BeforeByActivity(x, y) == x.lastActivity >= y.lastActivity

\* The comparator of filtered.sort does not put x after y: pinned first, then
\* the later lastActivity.
Before(x, y) ==
  \/ x.pinned /\ ~y.pinned
  \/ x.pinned = y.pinned /\ x.lastActivity >= y.lastActivity

RECURSIVE SortEntries(_)
SortEntries(S) ==
  IF S = {} THEN << >>
  ELSE LET e == CHOOSE x \in S : \A y \in S : Before(x, y)
       IN  << e >> \o SortEntries(S \ {e})

\* One entry per catalog entry, live fields and flags merged in.
Enriched == {IndexEntry(id) : id \in DOMAIN catalog}

Filtered(includeArchived) ==
  IF includeArchived THEN Enriched ELSE {e \in Enriched : ~e.archived}

\* The list loadSessionIndex(false) computes when it does not answer from
\* the cache, and the list loadSessionIndex(true) computes at every call.
ComputeIndex == SortEntries(Filtered(FALSE))
ComputeIndexArchived == SortEntries(Filtered(TRUE))

CacheFresh ==
  sessionCache.set /\ now - sessionCacheTime < SESSION_CACHE_TTL_MS

\* loadSessionIndex(): its answer, and the cache it leaves behind.
loadSessionIndex == IF CacheFresh THEN sessionCache.list ELSE ComputeIndex
CacheAfterLoad == [set |-> TRUE, list |-> loadSessionIndex]
CacheTimeAfterLoad == IF CacheFresh THEN sessionCacheTime ELSE now

\* A faulty invalidation: the cache time is left as it is.
InvalidatedKeep == sessionCacheTime

\* invalidateSessionCache(): the value sessionCacheTime gets.
invalidateSessionCache == 0

InList(list, id) == \E i \in 1..Len(list) : list[i].id = id

\* ------------------------------------------------------ the client panel
\* src/public/app.js. A delay is a dyadic rational n / 2^e, which is what
\* the doubles of the client hold as long as the products stay exact.
RECURSIVE Pow(_, _)
Pow(b, k) == IF k = 0 THEN 1 ELSE b * Pow(b, k - 1)

Ms(n) == [n |-> n, e |-> 0]
SameMs(a, b) == a.n * Pow(2, b.e) = b.n * Pow(2, a.e)
AtMostMs(a, b) == a.n * Pow(2, b.e) <= b.n * Pow(2, a.e)
MinMs(a, b) == IF AtMostMs(a, b) THEN a ELSE b

InitialReconnectDelay == 2000
MaxReconnectDelay == 30000

\* A faulty backoff: the delay doubles.
Doubled(d) == [n |-> 2 * d.n, e |-> d.e]

\* ps.reconnectDelay * 1.5
Times1_5(d) == [n |-> 3 * d.n, e |-> d.e + 1]

\* Math.min(ps.reconnectDelay * 1.5, 30000)
NextDelay(d) == MinMs(Times1_5(d), Ms(MaxReconnectDelay))

\* createTerminal: the panel connects and stores its state.
InitPanel ==
  /\ reconnectDelay = Ms(InitialReconnectDelay)
  /\ panelWs = "connecting"
  /\ panelExists = TRUE
  /\ liveSockets = 1
  /\ pendingTimers = 0
  /\ attempts = 1
  /\ fails = 0
  /\ waited = Ms(0)

\* ------------------------------------------------- environment bounds
\* What the environment does in one run is bounded by a profile, drawn at
\* Init and never changed: ws connections accepted, procs attach ptys
\* spawned, out bytes output, ins input frames sent, ticks clock advances,
\* and the kinds of event that may happen besides: create requests that
\* carry a message (msg), catalog writes of the backend (cat), socket errors
\* and closes begun by the peer (err), metadata and project calls (meta),
\* frames that are not plain keystrokes (frames), a tmux session that ends
\* while a connection is being set up (vanish), a signal that shuts the
\* relay down (stop).
Profile(nws, nprocs, nout, nins, nticks, may) ==
  [ws |-> nws, procs |-> nprocs, out |-> nout, ins |-> nins,
   ticks |-> nticks, may |-> may]

Profiles ==
  { Profile(MaxWs, MaxProcs, MaxChunk, 0, 0, {}),
    Profile(MaxWs, 1, MaxOut, MaxIn, 0, {}),
    Profile(1, MaxProcs, 1, MaxIn, MaxTicks, {"msg", "stop"}),
    Profile(1, 1, 1, 0, MaxTicks, {"cat", "meta"}),
    Profile(1, 1, 1, MaxIn, 0, {"frames", "vanish"}),
    Profile(MaxWs, 1, 1, 0, 0, {"err"}) }

\* ------------------------------------------------------------------ Init
CatalogModified == {0, 200000}

\* The state when server.listen's callback has run.

InitOver(ids) ==
  /\ activeSessions = EmptyMap
  /\ ptyProcesses = EmptyMap
  /\ scrollbackBuffers = EmptyMap
  /\ wsClients = EmptyMap
  /\ lastOutputTime = EmptyMap
  /\ lastInputTime = EmptyMap
  /\ procs = << >>
  /\ creating = [id \in Ids |-> 0]
  /\ timers = [id \in Ids |-> 0]
  /\ msgTimers = {}
  /\ ws = << >>
  /\ tmuxSessions \in SUBSET Ids
  /\ \E D \in SUBSET ids : catalog \in [D -> CatalogModified]
  /\ meta = EmptyMap
  /\ projects = {}
  /\ ptySize = EmptyMap
  /\ tmuxSize = EmptyMap
  /\ tmuxResizes = [id \in Ids |-> 0]
  /\ frameLog = << >>
  /\ stopping = FALSE
  /\ deleted = {}
  /\ lateDetach = {}
  /\ InitPanel
  /\ allocated = {}
  /\ produced = [id \in Ids |-> 0]
  /\ inSeq = 0
  /\ written = [m \in 0..MaxIn |-> 0]
  /\ now = Epoch
  /\ outputLog = [id \in Ids |-> << >>]
  \* server.listen's callback loads the index once.
  /\ sessionCache = [set |-> TRUE, list |-> ComputeIndex]
  /\ sessionCacheTime = Epoch
  /\ termAt = [id \in Ids |-> 0]

\* The catalog holds sessions of earlier runs, with ids among ids.
InitRelay == InitOver(Ids)

Init == InitRelay /\ env \in Profiles

\* --------------------------------------------------------- pty processes
\* pty.spawn('tmux', ['attach-session', ...]): a new attach pty for id. Its
\* output starts at what the backend has output so far. Without a tmux
\* session to attach to, the client is on its way out from the start.
\* state: "live", "ending" (its exit event is due), "exited".
AttachProc(id) ==
  [id |-> id,
   state |-> IF id \in tmuxSessions THEN "live" ELSE "ending",
   pos |-> produced[id]]

\* The tmux session of id is gone: every client attached to it ends.
EndAttached(id, ps) ==
  [p \in DOMAIN ps |->
     IF ps[p].id = id /\ ps[p].state = "live"
       THEN [ps[p] EXCEPT !.state = "ending"]
       ELSE ps[p]]

\* The last pty spawned for id, 0 when there is none.
LastSpawned(id) ==
  LET mine == {p \in DOMAIN procs : procs[p].id = id}
  IN  IF mine = {} THEN 0 ELSE CHOOSE p \in mine : \A q \in mine : q <= p

Terminal == {"done", "error"}

\* A faulty record: every new record starts idle.
SessionRecordIdle(id, status) == [status |-> "idle", lastActivity |-> now]

SessionRecord(id, status) == [status |-> status, lastActivity |-> now]

\* A faulty write: the frame goes to the pty twice.
WriteTwice(id, msg) ==
  IF Has(ptyProcesses, id) THEN [written EXCEPT ![msg] = @ + 2] ELSE written

\* A faulty write: the frame is written though no handle is registered.
WriteAlways(id, msg) == [written EXCEPT ![msg] = @ + 1]

\* proc.write(msg) on the registered handle, when there is one.
WriteTo(id, msg) ==
  IF Has(ptyProcesses, id) THEN [written EXCEPT ![msg] = @ + 1] ELSE written

\* --------------------------------------------------------- HTTP handlers
\* POST /sessions. crypto.randomUUID() answers an id nothing knows yet;
\* withMsg: the request carries an initial message.
Create(id, withMsg) ==
  /\ id \notin allocated
  /\ id \notin DOMAIN catalog
  /\ id \notin tmuxSessions
  /\ withMsg => "msg" \in env.may
  /\ allocated' = allocated \cup {id}
  /\ activeSessions' = Put(activeSessions, id, SessionRecord(id, "running"))
  /\ scrollbackBuffers' = Put(scrollbackBuffers, id, << >>)
  /\ wsClients' = Put(wsClients, id, {})
  \* spawnSession: the detached create is issued; its exit arms the timer.
  /\ creating' = [creating EXCEPT ![id] = @ + 1]
  /\ sessionCacheTime' = invalidateSessionCache
  /\ msgTimers' = IF withMsg THEN msgTimers \cup {id} ELSE msgTimers
  /\ UNCHANGED << ptyProcesses, lastOutputTime, lastInputTime, sessionCache,
                  procs, timers, ws, tmuxSessions, catalog, meta, projects,
                  ptySize, tmuxSize, tmuxResizes, frameLog, lateDetach,
                  deleted, stopping, reconnectDelay, panelWs, panelExists,
                  liveSockets, pendingTimers, attempts, fails, waited,
                  produced, inSeq, written, now, outputLog, termAt, env >>

\* GET /sessions/:id: its answer, and the handler (it may refill the cache;
\* a request answered from the cache changes nothing and is no step).
GetAnswer(id) == IF InList(loadSessionIndex, id) THEN "200" ELSE "404"

Get(id) ==
  /\ ~CacheFresh
  /\ sessionCache' = CacheAfterLoad
  /\ sessionCacheTime' = CacheTimeAfterLoad
  /\ UNCHANGED << activeSessions, ptyProcesses, scrollbackBuffers, wsClients,
                  lastOutputTime, lastInputTime, procs, creating, timers,
                  msgTimers, ws, tmuxSessions, catalog, meta, projects,
                  ptySize, tmuxSize, tmuxResizes, frameLog, lateDetach,
                  deleted, stopping, reconnectDelay, panelWs, panelExists,
                  liveSockets, pendingTimers, attempts, fails, waited,
                  allocated, produced, inSeq, written, now, outputLog,
                  termAt, env >>

\* GET /sessions?archived=...: its answer. With archived=true the list is
\* computed at every call and the cache is left alone.
ListAnswer(includeArchived) ==
  IF includeArchived THEN ComputeIndexArchived ELSE loadSessionIndex

\* GET /sessions (archived not asked for) when the cache is stale.
ListSessions ==
  /\ ~CacheFresh
  /\ sessionCache' = CacheAfterLoad
  /\ sessionCacheTime' = CacheTimeAfterLoad
  /\ UNCHANGED << activeSessions, ptyProcesses, scrollbackBuffers, wsClients,
                  lastOutputTime, lastInputTime, procs, creating, timers,
                  msgTimers, ws, tmuxSessions, catalog, meta, projects,
                  ptySize, tmuxSize, tmuxResizes, frameLog, lateDetach,
                  deleted, stopping, reconnectDelay, panelWs, panelExists,
                  liveSockets, pendingTimers, attempts, fails, waited,
                  allocated, produced, inSeq, written, now, outputLog,
                  termAt, env >>

\* PATCH /sessions/:id/meta with pinned and archived in the body. A false
\* flag is deleted, an entry without flags is deleted.
Patched(id, pinned, archived) ==
  IF pinned \/ archived
    THEN Put(meta, id, [pinned |-> pinned, archived |-> archived])
    ELSE Del(meta, id)

PatchMeta(id, pinned, archived) ==
  /\ "meta" \in env.may
  /\ meta' = Patched(id, pinned, archived)
  /\ sessionCacheTime' = invalidateSessionCache
  /\ UNCHANGED << activeSessions, ptyProcesses, scrollbackBuffers, wsClients,
                  lastOutputTime, lastInputTime, sessionCache, procs,
                  creating, timers, msgTimers, ws, tmuxSessions, catalog,
                  projects, ptySize, tmuxSize, tmuxResizes, frameLog,
                  lateDetach, deleted, stopping, reconnectDelay, panelWs,
                  panelExists, liveSockets, pendingTimers, attempts, fails,
                  waited, allocated, produced, inSeq, written, now,
                  outputLog, termAt, env >>

ProjectNames == {"p1"}

\* POST /projects
CreateProject(name) ==
  /\ "meta" \in env.may
  /\ projects' = projects \cup {name}
  /\ sessionCacheTime' = invalidateSessionCache
  /\ UNCHANGED << activeSessions, ptyProcesses, scrollbackBuffers, wsClients,
                  lastOutputTime, lastInputTime, sessionCache, procs,
                  creating, timers, msgTimers, ws, tmuxSessions, catalog,
                  meta, ptySize, tmuxSize, tmuxResizes, frameLog, lateDetach,
                  deleted, stopping, reconnectDelay, panelWs, panelExists,
                  liveSockets, pendingTimers, attempts, fails, waited,
                  allocated, produced, inSeq, written, now, outputLog,
                  termAt, env >>

\* PATCH /projects/:name of a project that exists (recolor).
PatchProject(name) ==
  /\ "meta" \in env.may
  /\ name \in projects
  /\ sessionCacheTime' = invalidateSessionCache
  /\ UNCHANGED << activeSessions, ptyProcesses, scrollbackBuffers, wsClients,
                  lastOutputTime, lastInputTime, sessionCache, procs,
                  creating, timers, msgTimers, ws, tmuxSessions, catalog,
                  meta, projects, ptySize, tmuxSize, tmuxResizes, frameLog,
                  lateDetach, deleted, stopping, reconnectDelay, panelWs,
                  panelExists, liveSockets, pendingTimers, attempts, fails,
                  waited, allocated, produced, inSeq, written, now,
                  outputLog, termAt, env >>

\* DELETE /projects/:name of a project that exists.
DeleteProject(name) ==
  /\ "meta" \in env.may
  /\ name \in projects
  /\ projects' = projects \ {name}
  /\ sessionCacheTime' = invalidateSessionCache
  /\ UNCHANGED << activeSessions, ptyProcesses, scrollbackBuffers, wsClients,
                  lastOutputTime, lastInputTime, sessionCache, procs,
                  creating, timers, msgTimers, ws, tmuxSessions, catalog,
                  meta, ptySize, tmuxSize, tmuxResizes, frameLog, lateDetach,
                  deleted, stopping, reconnectDelay, panelWs, panelExists,
                  liveSockets, pendingTimers, attempts, fails, waited,
                  allocated, produced, inSeq, written, now, outputLog,
                  termAt, env >>

\* proc.kill() on the registered handle, if any.
KillRegistered(id) ==
  IF Has(ptyProcesses, id)
    THEN [procs EXCEPT ![ptyProcesses[id]].state = "ending"]
    ELSE procs

\* ws.close(1000, ...) on every member of the id's set.
CloseClients(id) ==
  [w \in DOMAIN ws |->
     IF Has(wsClients, id) /\ w \in wsClients[id] /\ ws[w].state = "OPEN"
       THEN [ws[w] EXCEPT !.state = "CLOSING"]
       ELSE ws[w]]

\* DELETE /sessions/:id; it answers { ok: true } whatever the id.
DeleteAnswer(id) == "ok"

Delete(id) ==
  /\ procs' = EndAttached(id, KillRegistered(id))
  /\ deleted' = deleted \cup {id}
  /\ ptyProcesses' = Del(ptyProcesses, id)
  /\ tmuxSessions' = tmuxSessions \ {id}
  /\ ws' = CloseClients(id)
  /\ activeSessions' = Del(activeSessions, id)
  /\ scrollbackBuffers' = Del(scrollbackBuffers, id)
  /\ wsClients' = Del(wsClients, id)
  /\ lastOutputTime' = Del(lastOutputTime, id)
  /\ lastInputTime' = Del(lastInputTime, id)
  /\ sessionCacheTime' = invalidateSessionCache
  /\ UNCHANGED << sessionCache, creating, timers, msgTimers, catalog, meta,
                  projects, ptySize, tmuxSize, tmuxResizes, frameLog,
                  lateDetach, stopping, reconnectDelay, panelWs, panelExists,
                  liveSockets, pendingTimers, attempts, fails, waited,
                  allocated, produced, inSeq, written, now, outputLog,
                  termAt, env >>

\* ------------------------------------------------------ spawn, two-phase
\* The detached create's onExit callback (spawnSession, and the spawn path
\* of the connection handler): it arms the 300 ms timer whatever the exit
\* code was. ok: the backend did create the tmux session.
CreateExit(id, ok) ==
  /\ creating[id] > 0
  /\ creating' = [creating EXCEPT ![id] = @ - 1]
  /\ timers' = [timers EXCEPT ![id] = @ + 1]
  /\ tmuxSessions' = IF ok THEN tmuxSessions \cup {id} ELSE tmuxSessions
  /\ UNCHANGED << activeSessions, ptyProcesses, scrollbackBuffers, wsClients,
                  lastOutputTime, lastInputTime, sessionCache,
                  sessionCacheTime, procs, msgTimers, ws, catalog, meta,
                  projects, ptySize, tmuxSize, tmuxResizes, frameLog,
                  lateDetach, deleted, stopping, reconnectDelay, panelWs,
                  panelExists, liveSockets, pendingTimers, attempts, fails,
                  waited, allocated, produced, inSeq, written, now,
                  outputLog, termAt, env >>

\* The 300 ms timer callback: spawn the attach pty, register it, listen.
AttachTimer(id) ==
  /\ timers[id] > 0
  /\ Len(procs) < env.procs
  /\ timers' = [timers EXCEPT ![id] = @ - 1]
  /\ procs' = Append(procs, AttachProc(id))
  /\ ptyProcesses' = Put(ptyProcesses, id, Len(procs) + 1)
  /\ UNCHANGED << activeSessions, scrollbackBuffers, wsClients,
                  lastOutputTime, lastInputTime, sessionCache,
                  sessionCacheTime, creating, msgTimers, ws, tmuxSessions,
                  catalog, meta, projects, ptySize, tmuxSize, tmuxResizes,
                  frameLog, lateDetach, deleted, stopping, reconnectDelay,
                  panelWs, panelExists, liveSockets, pendingTimers, attempts,
                  fails, waited, allocated, produced, inSeq, written, now,
                  outputLog, termAt, env >>

\* The 1.5 s timer callback of POST /sessions: write the initial message to
\* the registered handle, if there is one. The initial message is input 0.
MsgTimer(id) ==
  /\ id \in msgTimers
  /\ msgTimers' = msgTimers \ {id}
  /\ written' = WriteTo(id, 0)
  /\ UNCHANGED << activeSessions, ptyProcesses, scrollbackBuffers, wsClients,
                  lastOutputTime, lastInputTime, sessionCache,
                  sessionCacheTime, procs, creating, timers, ws,
                  tmuxSessions, catalog, meta, projects, ptySize, tmuxSize,
                  tmuxResizes, frameLog, lateDetach, deleted, stopping,
                  reconnectDelay, panelWs, panelExists, liveSockets,
                  pendingTimers, attempts, fails, waited, allocated,
                  produced, inSeq, now, outputLog, termAt, env >>

\* ---------------------------------------------------- setupPtyListeners
Bytes(from, k) == [i \in 1..k |-> from + i]

OnDataSession(id) ==
  [activeSessions[id] EXCEPT !.lastActivity = now, !.status = "running"]

\* proc.onData of attach pty p, carrying the next k bytes of the backend's
\* output as p sees it. Without a session record the handler returns at once.
OnData(p, k) ==
  LET id == procs[p].id
      data == Bytes(procs[p].pos, k)
      live == Has(activeSessions, id)
  IN  /\ procs[p].state = "live"
      /\ procs[p].pos + k <= env.out
      /\ procs' = [procs EXCEPT ![p].pos = @ + k]
      /\ produced' = [produced EXCEPT ![id] = Max(@, procs[p].pos + k)]
      /\ activeSessions' =
           IF live THEN Put(activeSessions, id, OnDataSession(id))
           ELSE activeSessions
      /\ lastOutputTime' =
           IF live THEN Put(lastOutputTime, id, now) ELSE lastOutputTime
      /\ scrollbackBuffers' =
           IF live THEN appendScrollback(scrollbackBuffers, id, data)
           ELSE scrollbackBuffers
      /\ ws' = IF live THEN broadcastRaw(wsClients, ws, id, DataFrame(data))
               ELSE ws
      /\ outputLog' = IF live THEN [outputLog EXCEPT ![id] = @ \o data]
                      ELSE outputLog
      /\ UNCHANGED << ptyProcesses, wsClients, lastInputTime, sessionCache,
                      sessionCacheTime, creating, timers, msgTimers,
                      tmuxSessions, catalog, meta, projects, ptySize,
                      tmuxSize, tmuxResizes, frameLog, lateDetach, deleted,
                      stopping, reconnectDelay, panelWs, panelExists,
                      liveSockets, pendingTimers, attempts, fails, waited,
                      allocated, inSeq, written, now, termAt, env >>

\* A faulty exit status: every exit counts as clean.
ExitStatusDone(exitCode) == "done"

ExitStatus(exitCode) == IF exitCode = 0 THEN "done" ELSE "error"

OnExitSession(id, exitCode) ==
  [activeSessions[id] EXCEPT !.status = ExitStatus(exitCode),
                             !.lastActivity = now]

\* proc.onExit of attach pty p. The position of an exited pty is read no
\* more and is reset.
OnExit(p, exitCode) ==
  LET id == procs[p].id
  IN  /\ procs[p].state = "ending"
      /\ procs' = [procs EXCEPT ![p].state = "exited", ![p].pos = 0]
      /\ activeSessions' =
           IF Has(activeSessions, id)
             THEN Put(activeSessions, id, OnExitSession(id, exitCode))
             ELSE activeSessions
      /\ ptyProcesses' = Del(ptyProcesses, id)
      /\ lastOutputTime' = Del(lastOutputTime, id)
      /\ lastInputTime' = Del(lastInputTime, id)
      /\ sessionCacheTime' = invalidateSessionCache
      /\ ws' = broadcastRaw(wsClients, ws, id, ExitFrame(exitCode))
      /\ termAt' =
           IF ~Has(activeSessions, id) THEN termAt
           ELSE IF activeSessions[id].status \in Terminal
             THEN [termAt EXCEPT ![id] = Max(@, p)]
           ELSE [termAt EXCEPT ![id] = p]
      /\ UNCHANGED << scrollbackBuffers, wsClients, sessionCache, creating,
                      timers, msgTimers, tmuxSessions, catalog, meta,
                      projects, ptySize, tmuxSize, tmuxResizes, frameLog,
                      lateDetach, deleted, stopping, reconnectDelay, panelWs,
                      panelExists, liveSockets, pendingTimers, attempts,
                      fails, waited, allocated, produced, inSeq, written,
                      now, outputLog, env >>

\* ------------------------------------------------------------ the sweep
\* A faulty sweep: a running session with a handle turns idle whatever the
\* time of its last output.
SweepStatusEager(id) ==
  LET st == activeSessions[id].status
  IN  IF st \in Terminal THEN st
      ELSE IF ~Has(ptyProcesses, id) THEN "error"
      ELSE IF st = "running" THEN "idle"
      ELSE st

\* A faulty sweep: a session without a handle keeps its status.
SweepStatusKeep(id) ==
  LET st == activeSessions[id].status
      lastOut == IF Has(lastOutputTime, id) THEN lastOutputTime[id] ELSE 0
  IN  IF st \in Terminal THEN st
      ELSE IF ~Has(ptyProcesses, id) THEN st
      ELSE IF now - lastOut > IDLE_TIMEOUT_MS /\ st = "running" THEN "idle"
      ELSE st

SweepStatus(id) ==
  LET st == activeSessions[id].status
      lastOut == IF Has(lastOutputTime, id) THEN lastOutputTime[id] ELSE 0
  IN  IF st \in Terminal THEN st
      ELSE IF ~Has(ptyProcesses, id) THEN "error"
      ELSE IF now - lastOut > IDLE_TIMEOUT_MS /\ st = "running" THEN "idle"
      ELSE st

Swept ==
  [id \in DOMAIN activeSessions |->
     [activeSessions[id] EXCEPT !.status = SweepStatus(id)]]

\* The setInterval callback. A tick that changes nothing is no step.
Sweep ==
  /\ Swept # activeSessions
  /\ activeSessions' = Swept
  /\ termAt' = [id \in Ids |->
                  IF Has(activeSessions, id)
                       /\ activeSessions[id].status \notin Terminal
                       /\ Swept[id].status \in Terminal
                    THEN LastSpawned(id)
                    ELSE termAt[id]]
  /\ UNCHANGED << ptyProcesses, scrollbackBuffers, wsClients, lastOutputTime,
                  lastInputTime, sessionCache, sessionCacheTime, procs,
                  creating, timers, msgTimers, ws, tmuxSessions, catalog,
                  meta, projects, ptySize, tmuxSize, tmuxResizes, frameLog,
                  lateDetach, deleted, stopping, reconnectDelay, panelWs,
                  panelExists, liveSockets, pendingTimers, attempts, fails,
                  waited, allocated, produced, inSeq, written, now,
                  outputLog, env >>

\* ------------------------------------------------------------ WebSocket
\* server.on('upgrade'): the id must be in the list or in activeSessions.
\* A faulty upgrade: every id passes.
SessionExistsAlways(id) == TRUE

SessionExists(id) == InList(loadSessionIndex, id) \/ Has(activeSessions, id)

\* What the connection handler does when no handle is registered for id.
NeedsAttach(id) == ~Has(ptyProcesses, id)
Reattaches(id) == NeedsAttach(id) /\ id \in tmuxSessions

\* A faulty spawn path: a session that has a record is not spawned again.
SpawnsUnlessRecorded(id) ==
  NeedsAttach(id) /\ id \notin tmuxSessions /\ ~Has(activeSessions, id)

Spawns(id) == NeedsAttach(id) /\ id \notin tmuxSessions

\* reattachSession and the spawn path create the record only when missing.
ConnectSessions(id) ==
  IF Has(activeSessions, id) THEN activeSessions
  ELSE IF Reattaches(id) THEN Put(activeSessions, id, SessionRecord(id, "idle"))
  ELSE IF Spawns(id) THEN Put(activeSessions, id, SessionRecord(id, "running"))
  ELSE activeSessions

ConnectScrollback(id) ==
  IF Spawns(id) /\ ~Has(scrollbackBuffers, id)
    THEN Put(scrollbackBuffers, id, << >>)
    ELSE scrollbackBuffers

\* The replay: the scrollback as one frame, when there is any.
Snapshot(bufs, id) ==
  IF Has(bufs, id) /\ Len(bufs[id]) > 0 THEN << DataFrame(bufs[id]) >> ELSE << >>

\* A socket just accepted. at and nsnap are history: how much had been
\* published for id when it attached, and how many replay frames it got.
Socket(id, frames) ==
  [id |-> id, state |-> "OPEN", frames |-> frames,
   at |-> Len(outputLog[id]), nsnap |-> Len(frames)]

AddClient(id, w) ==
  Put(wsClients, id, (IF Has(wsClients, id) THEN wsClients[id] ELSE {}) \cup {w})

\* server.on('upgrade') answering 404: only the index cache can change.
UpgradeRejected(id) ==
  /\ ~SessionExists(id)
  /\ ~CacheFresh
  /\ sessionCache' = CacheAfterLoad
  /\ sessionCacheTime' = CacheTimeAfterLoad
  /\ UNCHANGED << activeSessions, ptyProcesses, scrollbackBuffers, wsClients,
                  lastOutputTime, lastInputTime, procs, creating, timers,
                  msgTimers, ws, tmuxSessions, catalog, meta, projects,
                  ptySize, tmuxSize, tmuxResizes, frameLog, lateDetach,
                  deleted, stopping, reconnectDelay, panelWs, panelExists,
                  liveSockets, pendingTimers, attempts, fails, waited,
                  allocated, produced, inSeq, written, now, outputLog,
                  termAt, env >>

\* reattachSession(id, workingDir): its answer. The connection handler has
\* seen the tmux session with its own probe; gone: the session ends before
\* reattachSession probes again.
reattachSession(id, gone) == ~gone

\* The connection handler reaches reattachSession, and it attaches.
Attaches(id, gone) == Reattaches(id) /\ reattachSession(id, gone)

\* server.on('upgrade') followed by wss.on('connection') (handleUpgrade calls
\* back synchronously). The handler ignores the answer of reattachSession.
Connection(id, gone) ==
  /\ SessionExists(id)
  /\ Len(ws) < env.ws
  /\ gone => "vanish" \in env.may /\ Reattaches(id)
  /\ Attaches(id, gone) => Len(procs) < env.procs
  /\ sessionCache' = CacheAfterLoad
  /\ sessionCacheTime' = CacheTimeAfterLoad
  /\ wsClients' = AddClient(id, Len(ws) + 1)
  /\ tmuxSessions' = IF gone THEN tmuxSessions \ {id} ELSE tmuxSessions
  /\ activeSessions' = IF gone THEN activeSessions ELSE ConnectSessions(id)
  /\ scrollbackBuffers' = ConnectScrollback(id)
  /\ procs' = IF gone THEN EndAttached(id, procs)
              ELSE IF Attaches(id, gone) THEN Append(procs, AttachProc(id))
              ELSE procs
  /\ ptyProcesses' =
       IF Attaches(id, gone) THEN Put(ptyProcesses, id, Len(procs) + 1)
       ELSE ptyProcesses
  /\ lastOutputTime' = IF Attaches(id, gone) THEN Put(lastOutputTime, id, now)
                       ELSE lastOutputTime
  /\ creating' = IF Spawns(id) THEN [creating EXCEPT ![id] = @ + 1]
                 ELSE creating
  /\ ws' = Append(ws, Socket(id, Snapshot(ConnectScrollback(id), id)))
  /\ UNCHANGED << lastInputTime, timers, msgTimers, catalog, meta, projects,
                  ptySize, tmuxSize, tmuxResizes, frameLog, lateDetach,
                  deleted, stopping, reconnectDelay, panelWs, panelExists,
                  liveSockets, pendingTimers, attempts, fails, waited,
                  allocated, produced, inSeq, written, now, outputLog,
                  termAt, env >>

WsConnect(id) == \E gone \in BOOLEAN : Connection(id, gone)

\* A faulty input mark: the status is left as it is.
InputSessionKeep(id) == [activeSessions[id] EXCEPT !.lastActivity = now]

InputSession(id) ==
  [activeSessions[id] EXCEPT !.lastActivity = now, !.status = "running"]

\* ------------------------------------------------------------- frames
\* A frame a client sends, by what the handler asks of its text: does it
\* begin with '{' (brace), does it contain "type" (hasType) and "resize"
\* (hasResize), and what would JSON.parse make of it (json): "invalid" when
\* it throws, "resize" for an object whose type is 'resize' and whose cols
\* and rows are truthy, "resizeNoSize" for an object whose type is 'resize'
\* and whose cols or rows is 0 or missing, "other" for any other value. size
\* is the cols x rows a resize object asks for.
Sizes == {1, 2}

Frames ==
  {f \in [brace : BOOLEAN, hasType : BOOLEAN, hasResize : BOOLEAN,
          json : {"invalid", "other", "resize", "resizeNoSize"},
          size : Sizes] :
     /\ f.json \in {"resize", "resizeNoSize"} =>
          f.brace /\ f.hasType /\ f.hasResize
     /\ f.json # "resize" => f.size = 1}

\* A plain keystroke.
Keystroke ==
  [brace |-> FALSE, hasType |-> FALSE, hasResize |-> FALSE,
   json |-> "invalid", size |-> 1]

\* message.charAt(0) === '{' && message.includes('"type"') &&
\* message.includes('"resize"')
IsResizeTest(f) == f.brace /\ f.hasType /\ f.hasResize

\* The test passed, JSON.parse answered cmd, and cmd.type === 'resize' &&
\* cmd.cols && cmd.rows.
IsResizeCmd(f) == IsResizeTest(f) /\ f.json = "resize"

\* proc.resize(cmd.cols, cmd.rows) is called, and throws (ptyFails). The
\* call is inside the outer try, so control goes to its catch.
PtyResizeThrows(id, f, ptyFails) ==
  IsResizeCmd(f) /\ Has(ptyProcesses, id) /\ ptyFails

\* A faulty handler: a frame that passes the test is never written.
IsRawUntested(id, f, ptyFails) == ~IsResizeTest(f)

\* The handler reaches the raw input part: it did not return from the
\* resize branch.
IsRaw(id, f, ptyFails) ==
  ~IsResizeCmd(f) \/ PtyResizeThrows(id, f, ptyFails)

\* The handler reaches execSync('tmux resize-window ...').
RunsTmuxResize(id, f, ptyFails) ==
  IsResizeCmd(f) /\ ~PtyResizeThrows(id, f, ptyFails)

\* ws.on('message'): frame inSeq + 1 arrives on w. ptyFails: proc.resize
\* throws if called; tmuxFails: tmux resize-window fails if run (it fails
\* anyway without a session).
Message(w, f, ptyFails, tmuxFails) ==
  LET id == ws[w].id
      raw == IsRaw(id, f, ptyFails)
      marks == raw /\ Has(ptyProcesses, id) /\ Has(activeSessions, id)
  IN  /\ ws[w].state = "OPEN"
      /\ inSeq < env.ins
      /\ inSeq' = inSeq + 1
      /\ frameLog' = Append(frameLog, f)
      /\ ptySize' =
           IF IsResizeCmd(f) /\ Has(ptyProcesses, id) /\ ~ptyFails
             THEN Put(ptySize, ptyProcesses[id], f.size)
             ELSE ptySize
      /\ tmuxResizes' =
           IF RunsTmuxResize(id, f, ptyFails)
             THEN [tmuxResizes EXCEPT ![id] = @ + 1]
             ELSE tmuxResizes
      /\ tmuxSize' =
           IF RunsTmuxResize(id, f, ptyFails) /\ id \in tmuxSessions
                /\ ~tmuxFails
             THEN Put(tmuxSize, id, f.size)
             ELSE tmuxSize
      /\ written' = IF raw THEN WriteTo(id, inSeq + 1) ELSE written
      /\ activeSessions' =
           IF marks THEN Put(activeSessions, id, InputSession(id))
           ELSE activeSessions
      /\ lastInputTime' =
           IF marks THEN Put(lastInputTime, id, now) ELSE lastInputTime
      /\ UNCHANGED << ptyProcesses, scrollbackBuffers, wsClients,
                      lastOutputTime, sessionCache, sessionCacheTime, procs,
                      creating, timers, msgTimers, ws, tmuxSessions, catalog,
                      meta, projects, lateDetach, deleted, stopping,
                      reconnectDelay, panelWs, panelExists, liveSockets,
                      pendingTimers, attempts, fails, waited, allocated,
                      produced, now, outputLog, termAt, env >>

\* ws.on('message') with a plain keystroke. Frame inSeq + 1 is written to
\* the registered handle when there is one.
WsMessage(w) == Message(w, Keystroke, FALSE, FALSE)

\* ws.on('message') with any other frame.
WsFrame(w, f) ==
  /\ "frames" \in env.may
  /\ f # Keystroke
  /\ \E ptyFails, tmuxFails \in BOOLEAN : Message(w, f, ptyFails, tmuxFails)

\* A faulty detach: it empties the sets.
RemoveEveryClient(w) == [id \in DOMAIN wsClients |-> {}]

\* A faulty detach: Set.delete puts back what is not there.
RemoveToggle(w) ==
  [id \in DOMAIN wsClients |->
     IF w \in wsClients[id] THEN wsClients[id] \ {w} ELSE wsClients[id] \cup {w}]

\* clients.delete(ws). The set the handler holds is the one w was added to;
\* w is a member of no other set, so removing it from every set is the same.
RemoveClient(w) == [id \in DOMAIN wsClients |-> wsClients[id] \ {w}]

\* w is in an observer set.
Member(w) == \E id \in DOMAIN wsClients : w \in wsClients[id]

\* A closed socket: what its client had received is dropped from the model.
Closed(id) ==
  [id |-> id, state |-> "CLOSED", frames |-> << >>, at |-> 0, nsnap |-> 0]

\* ws.on('close')
WsClose(w) ==
  /\ ws[w].state \in {"OPEN", "CLOSING"}
  /\ ws' = [ws EXCEPT ![w] = Closed(ws[w].id)]
  /\ wsClients' = RemoveClient(w)
  /\ lateDetach' = IF Member(w) THEN lateDetach ELSE lateDetach \cup {w}
  /\ UNCHANGED << activeSessions, ptyProcesses, scrollbackBuffers,
                  lastOutputTime, lastInputTime, sessionCache,
                  sessionCacheTime, procs, creating, timers, msgTimers,
                  tmuxSessions, catalog, meta, projects, ptySize, tmuxSize,
                  tmuxResizes, frameLog, deleted, stopping, reconnectDelay,
                  panelWs, panelExists, liveSockets, pendingTimers, attempts,
                  fails, waited, allocated, produced, inSeq, written, now,
                  outputLog, termAt, env >>

\* The peer starts the closing handshake: readyState is CLOSING and the
\* 'close' event, which removes the socket from its set, is still to come.
WsClosing(w) ==
  /\ "err" \in env.may
  /\ ws[w].state = "OPEN"
  /\ ws' = [ws EXCEPT ![w].state = "CLOSING"]
  /\ UNCHANGED << activeSessions, ptyProcesses, scrollbackBuffers, wsClients,
                  lastOutputTime, lastInputTime, sessionCache,
                  sessionCacheTime, procs, creating, timers, msgTimers,
                  tmuxSessions, catalog, meta, projects, ptySize, tmuxSize,
                  tmuxResizes, frameLog, lateDetach, deleted, stopping,
                  reconnectDelay, panelWs, panelExists, liveSockets,
                  pendingTimers, attempts, fails, waited, allocated,
                  produced, inSeq, written, now, outputLog, termAt, env >>

\* ws.on('error'): the socket is on its way to closed; 'close' follows.
WsError(w) ==
  /\ "err" \in env.may
  /\ ws[w].state \in {"OPEN", "CLOSING"}
  /\ ws' = [ws EXCEPT ![w].state = "CLOSING"]
  /\ wsClients' = RemoveClient(w)
  /\ lateDetach' = IF Member(w) THEN lateDetach ELSE lateDetach \cup {w}
  /\ UNCHANGED << activeSessions, ptyProcesses, scrollbackBuffers,
                  lastOutputTime, lastInputTime, sessionCache,
                  sessionCacheTime, procs, creating, timers, msgTimers,
                  tmuxSessions, catalog, meta, projects, ptySize, tmuxSize,
                  tmuxResizes, frameLog, deleted, stopping, reconnectDelay,
                  panelWs, panelExists, liveSockets, pendingTimers, attempts,
                  fails, waited, allocated, produced, inSeq, written, now,
                  outputLog, termAt, env >>

\* ------------------------------------------------------------- shutdown
\* ws.close(1000, ...) on every member of every set.
CloseAllClients ==
  [w \in DOMAIN ws |->
     IF Member(w) /\ ws[w].state = "OPEN"
       THEN [ws[w] EXCEPT !.state = "CLOSING"]
       ELSE ws[w]]

\* proc.kill() on every registered handle.
KillAllRegistered ==
  [p \in DOMAIN procs |->
     IF \E id \in DOMAIN ptyProcesses : ptyProcesses[id] = p
       THEN [procs[p] EXCEPT !.state = "ending"]
       ELSE procs[p]]

\* shutdown(), on SIGINT or SIGTERM. The process exits when the server has
\* closed, or after 5 s; until then the handlers go on running.
Shutdown ==
  /\ "stop" \in env.may
  /\ ~stopping
  /\ stopping' = TRUE
  /\ ws' = CloseAllClients
  /\ procs' = KillAllRegistered
  /\ UNCHANGED << activeSessions, ptyProcesses, scrollbackBuffers, wsClients,
                  lastOutputTime, lastInputTime, sessionCache,
                  sessionCacheTime, creating, timers, msgTimers,
                  tmuxSessions, catalog, meta, projects, ptySize, tmuxSize,
                  tmuxResizes, frameLog, lateDetach, deleted, reconnectDelay,
                  panelWs, panelExists, liveSockets, pendingTimers, attempts,
                  fails, waited, allocated, produced, inSeq, written, now,
                  outputLog, termAt, env >>

\* ---------------------------------------------------------- environment
\* The program inside tmux ends, and its tmux session with it.
BackendExit(id) ==
  /\ id \in tmuxSessions
  /\ tmuxSessions' = tmuxSessions \ {id}
  /\ procs' = EndAttached(id, procs)
  /\ UNCHANGED << activeSessions, ptyProcesses, scrollbackBuffers, wsClients,
                  lastOutputTime, lastInputTime, sessionCache,
                  sessionCacheTime, creating, timers, msgTimers, ws, catalog,
                  meta, projects, ptySize, tmuxSize, tmuxResizes, frameLog,
                  lateDetach, deleted, stopping, reconnectDelay, panelWs,
                  panelExists, liveSockets, pendingTimers, attempts, fails,
                  waited, allocated, produced, inSeq, written, now,
                  outputLog, termAt, env >>

\* The program inside tmux writes its transcript: the catalog gets, or
\* refreshes, the id's entry.
CatalogWrite(id) ==
  /\ "cat" \in env.may
  /\ id \in tmuxSessions
  /\ catalog' = Put(catalog, id, now)
  /\ catalog' # catalog
  /\ UNCHANGED << activeSessions, ptyProcesses, scrollbackBuffers, wsClients,
                  lastOutputTime, lastInputTime, sessionCache,
                  sessionCacheTime, procs, creating, timers, msgTimers, ws,
                  tmuxSessions, meta, projects, ptySize, tmuxSize,
                  tmuxResizes, frameLog, lateDetach, deleted, stopping,
                  reconnectDelay, panelWs, panelExists, liveSockets,
                  pendingTimers, attempts, fails, waited, allocated,
                  produced, inSeq, written, now, outputLog, termAt, env >>

Tick ==
  /\ now < Epoch + env.ticks * TickMs
  /\ now' = now + TickMs
  /\ UNCHANGED << activeSessions, ptyProcesses, scrollbackBuffers, wsClients,
                  lastOutputTime, lastInputTime, sessionCache,
                  sessionCacheTime, procs, creating, timers, msgTimers, ws,
                  tmuxSessions, catalog, meta, projects, ptySize, tmuxSize,
                  tmuxResizes, frameLog, lateDetach, deleted, stopping,
                  reconnectDelay, panelWs, panelExists, liveSockets,
                  pendingTimers, attempts, fails, waited, allocated,
                  produced, inSeq, written, outputLog, termAt, env >>

\* ------------------------------------------------------- specification
Next ==
  \/ \E id \in Ids, withMsg \in BOOLEAN : Create(id, withMsg)
  \/ \E id \in Ids : Get(id)
  \/ ListSessions
  \/ \E id \in Ids, pinned, archived \in BOOLEAN : PatchMeta(id, pinned, archived)
  \/ \E name \in ProjectNames : CreateProject(name)
  \/ \E name \in ProjectNames : PatchProject(name)
  \/ \E name \in ProjectNames : DeleteProject(name)
  \/ \E id \in Ids : Delete(id)
  \/ \E id \in Ids, ok \in BOOLEAN : CreateExit(id, ok)
  \/ \E id \in Ids : AttachTimer(id)
  \/ \E id \in Ids : MsgTimer(id)
  \/ \E p \in DOMAIN procs, k \in 1..MaxChunk : OnData(p, k)
  \/ \E p \in DOMAIN procs, c \in ExitCodes : OnExit(p, c)
  \/ Sweep
  \/ \E id \in Ids : UpgradeRejected(id)
  \/ \E id \in Ids : WsConnect(id)
  \/ \E w \in DOMAIN ws : WsMessage(w)
  \/ \E w \in DOMAIN ws, f \in Frames : WsFrame(w, f)
  \/ \E w \in DOMAIN ws : WsClosing(w)
  \/ \E w \in DOMAIN ws : WsClose(w)
  \/ \E w \in DOMAIN ws : WsError(w)
  \/ \E id \in Ids : BackendExit(id)
  \/ \E id \in Ids : CatalogWrite(id)
  \/ Tick
  \/ Shutdown

Spec == Init /\ [][Next]_vars


\* ---------------------------------------------- the list in isolation
\* The session list under the admin calls alone: a catalog of several
\* sessions, metadata and project calls, creates and deletes, catalog writes
\* of the backend, and a clock that advances by less than the cache TTL.
IndexIds == {"s1", "s2"}
IndexTickMs == 2500
MaxIndexTicks == 3
IndexProfile == Profile(0, 0, 0, 0, 0, {"cat", "meta"})

InitIndex ==
  /\ InitOver(IndexIds)
  /\ env = IndexProfile

TickIndex ==
  /\ now < Epoch + MaxIndexTicks * IndexTickMs
  /\ now' = now + IndexTickMs
  /\ UNCHANGED << activeSessions, ptyProcesses, scrollbackBuffers, wsClients,
                  lastOutputTime, lastInputTime, sessionCache,
                  sessionCacheTime, procs, creating, timers, msgTimers, ws,
                  tmuxSessions, catalog, meta, projects, ptySize, tmuxSize,
                  tmuxResizes, frameLog, lateDetach, deleted, stopping,
                  reconnectDelay, panelWs, panelExists, liveSockets,
                  pendingTimers, attempts, fails, waited, allocated,
                  produced, inSeq, written, outputLog, termAt, env >>

NextIndex ==
  \/ \E id \in Ids, withMsg \in BOOLEAN : Create(id, withMsg)
  \/ \E id \in Ids : Delete(id)
  \/ \E id \in IndexIds, pinned, archived \in BOOLEAN :
        PatchMeta(id, pinned, archived)
  \/ \E name \in ProjectNames : CreateProject(name)
  \/ \E name \in ProjectNames : PatchProject(name)
  \/ \E name \in ProjectNames : DeleteProject(name)
  \/ ListSessions
  \/ \E id \in Ids : CatalogWrite(id)
  \/ TickIndex

SpecIndex == InitIndex /\ [][NextIndex]_vars

\* ------------------------------------------ the client panel in isolation
\* One panel of the client against a relay that accepts or drops its
\* connections at will.
MaxAttempts == 10
Quiet == Profile(0, 0, 0, 0, 0, {})

InitReconnect ==
  /\ InitRelay
  /\ tmuxSessions = {}
  /\ catalog = EmptyMap
  /\ env = Quiet

\* ws.onopen
PanelOpen ==
  /\ panelExists
  /\ panelWs = "connecting"
  /\ panelWs' = "open"
  /\ reconnectDelay' = Ms(InitialReconnectDelay)
  /\ fails' = 0
  /\ UNCHANGED << activeSessions, ptyProcesses, scrollbackBuffers, wsClients,
                  lastOutputTime, lastInputTime, sessionCache,
                  sessionCacheTime, procs, creating, timers, msgTimers, ws,
                  tmuxSessions, catalog, meta, projects, ptySize, tmuxSize,
                  tmuxResizes, frameLog, lateDetach, deleted, stopping,
                  panelExists, liveSockets, pendingTimers, attempts, waited,
                  allocated, produced, inSeq, written, now, outputLog,
                  termAt, env >>

\* ws.onclose: handleDisconnect arms the reconnect timer.
PanelClose ==
  /\ panelExists
  /\ panelWs \in {"connecting", "open"}
  /\ panelWs' = "none"
  /\ liveSockets' = liveSockets - 1
  /\ pendingTimers' = pendingTimers + 1
  /\ waited' = reconnectDelay
  /\ reconnectDelay' = NextDelay(reconnectDelay)
  /\ fails' = fails + 1
  /\ UNCHANGED << activeSessions, ptyProcesses, scrollbackBuffers, wsClients,
                  lastOutputTime, lastInputTime, sessionCache,
                  sessionCacheTime, procs, creating, timers, msgTimers, ws,
                  tmuxSessions, catalog, meta, projects, ptySize, tmuxSize,
                  tmuxResizes, frameLog, lateDetach, deleted, stopping,
                  panelExists, attempts, allocated, produced, inSeq, written,
                  now, outputLog, termAt, env >>

\* The reconnect timer fires: connectWebSocket, unless panelState has lost
\* the session id.
PanelReconnect ==
  /\ pendingTimers > 0
  /\ attempts < MaxAttempts
  /\ pendingTimers' = pendingTimers - 1
  /\ panelWs' = IF panelExists THEN "connecting" ELSE panelWs
  /\ liveSockets' = IF panelExists THEN liveSockets + 1 ELSE liveSockets
  /\ attempts' = IF panelExists THEN attempts + 1 ELSE attempts
  /\ UNCHANGED << activeSessions, ptyProcesses, scrollbackBuffers, wsClients,
                  lastOutputTime, lastInputTime, sessionCache,
                  sessionCacheTime, procs, creating, timers, msgTimers, ws,
                  tmuxSessions, catalog, meta, projects, ptySize, tmuxSize,
                  tmuxResizes, frameLog, lateDetach, deleted, stopping,
                  reconnectDelay, panelExists, fails, waited, allocated,
                  produced, inSeq, written, now, outputLog, termAt, env >>

\* A faulty destroy: the reconnect timer is left armed.
ClearTimerNot(n) == n

\* clearTimeout(ps.reconnectTimer): the timer the panel holds, if it is
\* still pending, is cleared.
ClearTimer(n) == IF n > 0 THEN n - 1 ELSE 0

\* destroyPanel(sessionId): clear the timer, mute and close ps.ws, drop the
\* panel state.
DestroyPanel ==
  /\ panelExists
  /\ panelExists' = FALSE
  /\ pendingTimers' = ClearTimer(pendingTimers)
  /\ liveSockets' = IF panelWs \in {"connecting", "open"}
                       THEN liveSockets - 1 ELSE liveSockets
  /\ panelWs' = "none"
  /\ UNCHANGED << activeSessions, ptyProcesses, scrollbackBuffers, wsClients,
                  lastOutputTime, lastInputTime, sessionCache,
                  sessionCacheTime, procs, creating, timers, msgTimers, ws,
                  tmuxSessions, catalog, meta, projects, ptySize, tmuxSize,
                  tmuxResizes, frameLog, lateDetach, deleted, stopping,
                  reconnectDelay, attempts, fails, waited, allocated,
                  produced, inSeq, written, now, outputLog, termAt, env >>

\* createTerminal(sessionId, containerEl), called when panelState does not
\* have the session id: a new panel with a new socket.
CreatePanel ==
  /\ ~panelExists
  /\ attempts < MaxAttempts
  /\ panelExists' = TRUE
  /\ panelWs' = "connecting"
  /\ liveSockets' = liveSockets + 1
  /\ reconnectDelay' = Ms(InitialReconnectDelay)
  /\ fails' = 0
  /\ attempts' = attempts + 1
  /\ UNCHANGED << activeSessions, ptyProcesses, scrollbackBuffers, wsClients,
                  lastOutputTime, lastInputTime, sessionCache,
                  sessionCacheTime, procs, creating, timers, msgTimers, ws,
                  tmuxSessions, catalog, meta, projects, ptySize, tmuxSize,
                  tmuxResizes, frameLog, lateDetach, deleted, stopping,
                  pendingTimers, waited, allocated, produced, inSeq, written,
                  now, outputLog, termAt, env >>

NextReconnect ==
  PanelOpen \/ PanelClose \/ PanelReconnect \/ DestroyPanel \/ CreatePanel

SpecReconnect == InitReconnect /\ [][NextReconnect]_vars

\* ------------------------------------------------ scrollback in isolation
\* appendScrollback called again and again on one id with arbitrary chunks,
\* the empty chunk and chunks longer than the capacity included. outputLog
\* holds the concatenation of all chunks appended so far.
ScrollBytes == {0, 1}
MaxAppended == 6
Chunks == UNION {[1..n -> ScrollBytes] : n \in 0..(SCROLLBACK_SIZE + 1)}

InitScrollback ==
  /\ InitRelay
  /\ tmuxSessions = {}
  /\ catalog = EmptyMap
  /\ env = Quiet

AppendChunk(id, data) ==
  /\ Len(outputLog[id]) + Len(data) <= MaxAppended
  /\ scrollbackBuffers' = appendScrollback(scrollbackBuffers, id, data)
  /\ outputLog' = [outputLog EXCEPT ![id] = @ \o data]
  /\ UNCHANGED << activeSessions, ptyProcesses, wsClients, lastOutputTime,
                  lastInputTime, sessionCache, sessionCacheTime, procs,
                  creating, timers, msgTimers, ws, tmuxSessions, catalog,
                  meta, projects, ptySize, tmuxSize, tmuxResizes, frameLog,
                  lateDetach, deleted, stopping, reconnectDelay, panelWs,
                  panelExists, liveSockets, pendingTimers, attempts, fails,
                  waited, allocated, produced, inSeq, written, now, termAt,
                  env >>

NextScrollback == \E id \in Ids, data \in Chunks : AppendChunk(id, data)

SpecScrollback == InitScrollback /\ [][NextScrollback]_vars

\* ------------------------------------------------------------ properties
Min(a, b) == IF a <= b THEN a ELSE b
LastBytes(s, n) == SubSeq(s, Len(s) - n + 1, Len(s))
Buffer(id) == IF Has(scrollbackBuffers, id) THEN scrollbackBuffers[id] ELSE << >>

\* The bytes of the data frames of a frame sequence, concatenated.
RECURSIVE DataBytes(_)
DataBytes(frames) ==
  IF frames = << >> THEN << >>
  ELSE (IF Head(frames).t = "data" THEN Head(frames).b ELSE << >>)
         \o DataBytes(Tail(frames))

\* The backend numbers its output bytes 1, 2, 3, ...: a sequence of bytes in
\* production order, none missing, none twice, goes up by one at every step.
InProductionOrder(s) == \A i \in 1..(Len(s) - 1) : s[i + 1] = s[i] + 1

LiveFrames(w) == SubSeq(ws[w].frames, ws[w].nsnap + 1, Len(ws[w].frames))
SnapshotBytes(w) == DataBytes(SubSeq(ws[w].frames, 1, ws[w].nsnap))
OpenSockets == {w \in DOMAIN ws : ws[w].state = "OPEN"}
LiveHandles(id) ==
  {p \in DOMAIN procs : procs[p].id = id /\ procs[p].state = "live"}

\* C1: at every instant and for every session id there is at most one live
\* process handle (an attached pty with its listeners) for the id.
C1_AtMostOneLiveHandle == \A id \in Ids : Cardinality(LiveHandles(id)) <= 1

\* C2: after every appendScrollback call the buffer is no longer than
\* SCROLLBACK_SIZE and equals the last min(SCROLLBACK_SIZE, total) bytes of
\* the concatenation of all chunks appended so far.
C2_ScrollbackIsSuffix ==
  \A id \in Ids :
    /\ Len(Buffer(id)) <= SCROLLBACK_SIZE
    /\ Buffer(id) =
         LastBytes(outputLog[id], Min(SCROLLBACK_SIZE, Len(outputLog[id])))

\* C2's case: more than the capacity was appended and bytes were cut off the
\* head, so that the buffer differs from the head of what was appended.
C2_Trimmed ==
  \E id \in Ids :
    /\ Len(outputLog[id]) > SCROLLBACK_SIZE + 1
    /\ Len(Buffer(id)) = SCROLLBACK_SIZE
    /\ Buffer(id) # SubSeq(outputLog[id], 1, SCROLLBACK_SIZE)

\* C3: after DELETE /sessions/:id a get of the id answers 404, no process
\* handle is registered for the id, no scrollback buffer is held for it, and
\* no observer that was attached to the id is left open.
C3_DeleteTearsDown ==
  [][\A id \in Ids :
       Delete(id) =>
         /\ GetAnswer(id)' = "404"
         /\ ~Has(ptyProcesses', id)
         /\ ~Has(scrollbackBuffers', id)
         /\ \A w \in Receivers(wsClients, ws, id) : ws'[w].state # "OPEN"]_vars

\* C4: what an open observer has received is the scrollback as it was when
\* the observer attached, as one frame and first, followed by the output
\* produced since, every byte once and in production order.
C4_ReplayThenLive ==
  \A w \in OpenSockets :
    /\ ws[w].nsnap <= 1
    /\ \A i \in 1..ws[w].nsnap : ws[w].frames[i].t = "data"
    /\ Len(outputLog[ws[w].id]) = ws[w].at => SnapshotBytes(w) = Buffer(ws[w].id)
    /\ InProductionOrder(DataBytes(ws[w].frames))

\* C5: the live frames an open observer has received carry the output
\* produced after it attached in production order, no byte twice and none
\* out of order.
C5_LiveInProductionOrder ==
  \A w \in OpenSockets : InProductionOrder(DataBytes(LiveFrames(w)))

\* C6: a status that is done or error turns running or idle only when a pty
\* has been spawned for the session after the pty the status is about: no
\* event of that pty's generation takes the status out of done or error.
C6_TerminalUntilSpawn ==
  [][\A id \in Ids :
       (/\ Has(activeSessions, id)
        /\ activeSessions[id].status \in Terminal
        /\ Has(activeSessions', id)
        /\ activeSessions'[id].status \notin Terminal)
       => LastSpawned(id) > termAt[id]]_vars

\* C7: the exit event of a pty sets the status of its session to done when
\* the exit code is 0 and to error otherwise, leaves no handle registered
\* for the id, and sends the exit notice to every open observer of the id.
C7_ExitEvent ==
  [][\A p \in DOMAIN procs, c \in ExitCodes :
       OnExit(p, c) =>
         LET id == procs[p].id
         IN  /\ Has(activeSessions, id) =>
                  /\ Has(activeSessions', id)
                  /\ activeSessions'[id].status =
                       (IF c = 0 THEN "done" ELSE "error")
             /\ ~Has(ptyProcesses', id)
             /\ \A w \in DOMAIN ws :
                  IF Has(wsClients, id) /\ w \in wsClients[id]
                       /\ ws[w].state = "OPEN"
                    THEN ws'[w].frames =
                           Append(ws[w].frames,
                                  [t |-> "exit", b |-> << >>, code |-> c])
                    ELSE ws'[w] = ws[w]]_vars

\* C7's case: a pty has exited with a nonzero code, the status is error, no
\* handle is registered and an open observer has the notice as its last frame.
C7_ExitSeen ==
  \E p \in DOMAIN procs, w \in OpenSockets :
    /\ procs[p].state = "exited"
    /\ procs[p].id = ws[w].id
    /\ ~Has(ptyProcesses, ws[w].id)
    /\ Has(activeSessions, ws[w].id)
    /\ activeSessions[ws[w].id].status = "error"
    /\ Len(ws[w].frames) > 0
    /\ ws[w].frames[Len(ws[w].frames)] = ExitFrame(1)

\* C8: an observer that attaches while no handle is registered for the id
\* starts an attempt: an attach pty is spawned and registered, or a detached
\* create is issued. A registered handle is never one that has exited.
C8_AttachStartsAttempt ==
  [][/\ \A id \in Ids :
          (WsConnect(id) /\ ~Has(ptyProcesses, id)) =>
            \/ /\ Len(procs') = Len(procs) + 1
               /\ procs'[Len(procs')].id = id
               /\ Has(ptyProcesses', id)
               /\ ptyProcesses'[id] = Len(procs')
            \/ creating'[id] = creating[id] + 1
            \/ id \in tmuxSessions /\ id \notin tmuxSessions'
     /\ \A id \in DOMAIN ptyProcesses' :
          procs'[ptyProcesses'[id]].state # "exited"]_vars

\* C8's case: a pty of the session has exited, the session has kept its
\* record, and an observer that attached afterwards has started a new attempt.
C8_RetriedAfterExit ==
  \E p \in DOMAIN procs, w \in OpenSockets :
    /\ procs[p].state = "exited"
    /\ procs[p].id = ws[w].id
    /\ Has(activeSessions, ws[w].id)
    /\ activeSessions[ws[w].id].status \in Terminal
    /\ Len(ws[w].frames) = ws[w].nsnap
    /\ \/ creating[ws[w].id] > 0
       \/ \E q \in DOMAIN procs :
            q > p /\ Has(ptyProcesses, ws[w].id) /\ ptyProcesses[ws[w].id] = q

\* C9: the close and the error of an observer remove that observer from the
\* observer sets and nothing else: the handles, the ptys, the backend
\* sessions, the scrollback, the status and the other observers stay.
C9_DetachOnlyRemoves ==
  [][\A w \in DOMAIN ws :
       (WsClose(w) \/ WsError(w)) =>
         /\ DOMAIN wsClients' = DOMAIN wsClients
         /\ \A id \in DOMAIN wsClients : wsClients'[id] = wsClients[id] \ {w}
         /\ \A v \in DOMAIN ws \ {w} : ws'[v] = ws[v]
         /\ ptyProcesses' = ptyProcesses
         /\ procs' = procs
         /\ tmuxSessions' = tmuxSessions
         /\ scrollbackBuffers' = scrollbackBuffers
         /\ activeSessions' = activeSessions]_vars

\* C9's case: one observer of a session has closed while another observer
\* of the same session stays attached and open and the handle stays live.
C9_OtherStays ==
  \E v, w \in DOMAIN ws :
    /\ ws[v].state = "CLOSED"
    /\ ws[w].state = "OPEN"
    /\ ws[w].id = ws[v].id
    /\ Has(wsClients, ws[w].id)
    /\ wsClients[ws[w].id] = {w}
    /\ Has(ptyProcesses, ws[w].id)
    /\ procs[ptyProcesses[ws[w].id]].state = "live"

\* Two open observers of one session, v attached before w: the live frames
\* of w are the frames v has received last, in the same order.
SameLiveFrames ==
  \A v, w \in OpenSockets :
    (v < w /\ ws[v].id = ws[w].id) =>
      /\ Len(LiveFrames(w)) <= Len(ws[v].frames)
      /\ LiveFrames(w) =
           SubSeq(ws[v].frames,
                  Len(ws[v].frames) - Len(LiveFrames(w)) + 1,
                  Len(ws[v].frames))

\* C10: an input frame an observer sends is written to the registered pty
\* exactly once, and the observers of one session receive the output that
\* follows as the same frames in the same order.
C10_InputOnceOutputSame ==
  [][/\ \A w \in DOMAIN ws :
          (WsMessage(w) /\ Has(ptyProcesses, ws[w].id)) =>
            /\ written'[inSeq + 1] = 1
            /\ \A m \in DOMAIN written \ {inSeq + 1} : written'[m] = written[m]
     /\ \A m \in DOMAIN written : written'[m] <= 1
     /\ SameLiveFrames']_vars

\* C10's case: two observers are open on one session, an input frame was
\* written once, and both have received live output: the same frame.
C10_BothReceived ==
  \E v, w \in OpenSockets :
    /\ v < w
    /\ ws[v].id = ws[w].id
    /\ written[1] = 1
    /\ Len(LiveFrames(w)) > 0
    /\ Len(LiveFrames(v)) > 0
    /\ ws[v].frames[Len(ws[v].frames)] = ws[w].frames[Len(ws[w].frames)]
    /\ ws[w].frames[Len(ws[w].frames)].t = "data"

\* C11: in an output event the chunk is in the scrollback when the observers
\* have it: after the event the buffer ends with the chunk (with its last
\* SCROLLBACK_SIZE bytes when the chunk is longer), and every open observer
\* of the session has received that chunk and nothing else.
C11_ScrollbackBeforeBroadcast ==
  [][\A p \in DOMAIN procs, k \in 1..MaxChunk :
       (OnData(p, k) /\ Has(activeSessions, procs[p].id)) =>
         LET id == procs[p].id
             chunk == [i \in 1..k |-> procs[p].pos + i]
             kept == Min(k, SCROLLBACK_SIZE)
         IN  /\ Has(scrollbackBuffers', id)
             /\ Len(scrollbackBuffers'[id]) >= kept
             /\ LastBytes(scrollbackBuffers'[id], kept) = LastBytes(chunk, kept)
             /\ \A w \in DOMAIN ws :
                  IF Has(wsClients, id) /\ w \in wsClients[id]
                       /\ ws[w].state = "OPEN"
                    THEN ws'[w].frames =
                           Append(ws[w].frames,
                                  [t |-> "data", b |-> chunk, code |-> 0])
                    ELSE ws'[w] = ws[w]]_vars

\* C11's case: an open observer has received a live chunk as its last frame
\* and the scrollback of its session ends with the bytes of that chunk.
C11_ChunkInScrollback ==
  \E w \in OpenSockets :
    /\ Len(LiveFrames(w)) > 0
    /\ ws[w].frames[Len(ws[w].frames)].t = "data"
    /\ Len(ws[w].frames[Len(ws[w].frames)].b) = MaxChunk
    /\ Len(Buffer(ws[w].id)) >= Min(MaxChunk, SCROLLBACK_SIZE)
    /\ LastBytes(Buffer(ws[w].id), Min(MaxChunk, SCROLLBACK_SIZE)) =
         LastBytes(ws[w].frames[Len(ws[w].frames)].b,
                   Min(MaxChunk, SCROLLBACK_SIZE))

\* C12: a session that create has made and delete has not removed is found
\* by get and is in the list, whatever the catalog holds.
C12_CreatedIsListed ==
  \A id \in allocated :
    Has(activeSessions, id) =>
      /\ GetAnswer(id) = "200"
      /\ InList(loadSessionIndex, id)

\* C13: create registers a record with status running under an id nothing
\* knew before, an empty scrollback buffer and an empty observer set for the
\* id, and issues the detached create of the session's process.
C13_CreateRegisters ==
  [][\A id \in Ids, withMsg \in BOOLEAN :
       Create(id, withMsg) =>
         /\ ~Has(activeSessions, id)
         /\ ~Has(scrollbackBuffers, id)
         /\ ~Has(wsClients, id)
         /\ ~Has(ptyProcesses, id)
         /\ ~Has(catalog, id)
         /\ Has(activeSessions', id)
         /\ activeSessions'[id].status = "running"
         /\ Has(scrollbackBuffers', id)
         /\ scrollbackBuffers'[id] = << >>
         /\ Has(wsClients', id)
         /\ wsClients'[id] = {}
         /\ creating'[id] = creating[id] + 1]_vars

\* C13's case: create has returned and nothing has happened to the session
\* since: record running, buffer empty, no observer, the create under way.
C13_JustCreated ==
  \E id \in allocated :
    /\ Has(activeSessions, id)
    /\ activeSessions[id].status = "running"
    /\ Has(scrollbackBuffers, id)
    /\ scrollbackBuffers[id] = << >>
    /\ Has(wsClients, id)
    /\ wsClients[id] = {}
    /\ creating[id] = 1
    /\ procs = << >>

\* C14: delete of an id that is neither in the session table nor in the list
\* answers NotFound.
C14_DeleteUnknownNotFound ==
  [][\A id \in Ids :
       (/\ Delete(id)
        /\ ~Has(activeSessions, id)
        /\ ~InList(loadSessionIndex, id))
       => DeleteAnswer(id) = "NotFound"]_vars

\* C15: a stream request for an id that is neither in the list nor in the
\* session table is never accepted, and its rejection leaves the session
\* table, the observer sets, the sockets, the scrollback buffers, the handles,
\* the ptys and the pending creates and timers as they were.
C15_UnknownStreamRejected ==
  [][\A id \in Ids :
       /\ WsConnect(id) =>
            (InList(loadSessionIndex, id) \/ Has(activeSessions, id))
       /\ UpgradeRejected(id) =>
            /\ ~InList(loadSessionIndex, id)
            /\ ~Has(activeSessions, id)
            /\ activeSessions' = activeSessions
            /\ wsClients' = wsClients
            /\ ws' = ws
            /\ scrollbackBuffers' = scrollbackBuffers
            /\ ptyProcesses' = ptyProcesses
            /\ procs' = procs
            /\ creating' = creating
            /\ timers' = timers]_vars

\* C15's case: the id is in no catalog and no table, the clock has advanced
\* and the index was loaded again, as a rejected stream request does; no
\* socket was accepted and nothing was spawned.
C15_RejectedUnknown ==
  \E id \in Ids :
    /\ ~Has(catalog, id)
    /\ ~Has(activeSessions, id)
    /\ id \notin allocated
    /\ now > Epoch
    /\ sessionCacheTime = now
    /\ ws = << >>
    /\ procs = << >>
    /\ creating[id] = 0

\* C16: an input frame that arrives while no handle is registered for the
\* session is written to no pty, then or later, and leaves the session's
\* record (status, lastActivity) and last input time as they were.
C16_InputDroppedWithoutHandle ==
  [][/\ \A w \in DOMAIN ws :
          (WsMessage(w) /\ ~Has(ptyProcesses, ws[w].id)) =>
            /\ written' = written
            /\ activeSessions' = activeSessions
            /\ lastInputTime' = lastInputTime
     /\ \A m \in 1..inSeq : written'[m] = written[m]]_vars

\* C16's case: an input frame was sent and written nowhere, and a handle has
\* been registered for the session since.
C16_DroppedThenHandle ==
  \E w \in OpenSockets :
    /\ inSeq >= 1
    /\ written[1] = 0
    /\ Has(ptyProcesses, ws[w].id)
    /\ procs[ptyProcesses[ws[w].id]].state = "live"

\* What a sweep tick makes of the status of id.
StatusAfterSweep(id) == Swept[id].status

HasOutputTime(id) == Has(ptyProcesses, id) /\ Has(lastOutputTime, id)

\* C17: a sweep tick turns a running session with a registered handle idle
\* when its last output is more than IDLE_TIMEOUT_MS old, leaves it running
\* when its last output is at most that old, and turns no session idle that
\* was not running.
C17_SweepIdle ==
  \A id \in DOMAIN activeSessions :
    LET st == activeSessions[id].status
    IN  /\ (/\ HasOutputTime(id)
            /\ st = "running"
            /\ now - lastOutputTime[id] > IDLE_TIMEOUT_MS)
           => StatusAfterSweep(id) = "idle"
        /\ (/\ HasOutputTime(id)
            /\ st = "running"
            /\ now - lastOutputTime[id] <= IDLE_TIMEOUT_MS)
           => StatusAfterSweep(id) = "running"
        /\ (StatusAfterSweep(id) = "idle" /\ st # "idle") => st = "running"

\* C17's case: the session has output in its scrollback, so it was running,
\* its last output is more than IDLE_TIMEOUT_MS old, and it is idle.
C17_SweptIdle ==
  \E id \in DOMAIN activeSessions :
    /\ activeSessions[id].status = "idle"
    /\ HasOutputTime(id)
    /\ now - lastOutputTime[id] > IDLE_TIMEOUT_MS
    /\ Len(Buffer(id)) > 0
    /\ procs[ptyProcesses[id]].state = "live"

\* C18: a sweep tick turns every session that has no registered handle and
\* is not done or error to error, and leaves a session that is done or error
\* as it is.
C18_SweepError ==
  \A id \in DOMAIN activeSessions :
    LET st == activeSessions[id].status
    IN  /\ (~Has(ptyProcesses, id) /\ st \notin {"done", "error"})
           => StatusAfterSweep(id) = "error"
        /\ st \in {"done", "error"} => Swept[id] = activeSessions[id]

\* C18's case: no pty was ever spawned, so no exit event has fired, and the
\* session, whose create is under way, is in error.
C18_SweptError ==
  \E id \in DOMAIN activeSessions :
    /\ activeSessions[id].status = "error"
    /\ ~Has(ptyProcesses, id)
    /\ procs = << >>
    /\ creating[id] + timers[id] > 0

\* A step registers a handle for id: the id has a handle afterwards that it
\* did not have before.
Registers(id) ==
  /\ Has(ptyProcesses', id)
  /\ ~Has(ptyProcesses, id) \/ ptyProcesses'[id] # ptyProcesses[id]

\* C19: right after a spawn or a reattach has registered a handle for a
\* session, the session has a record and its status is running.
C19_RunningOnRegister ==
  [][\A id \in Ids :
       Registers(id) =>
         /\ Has(activeSessions', id)
         /\ activeSessions'[id].status = "running"]_vars

\* C20: the status the list reports for a session that has a registered
\* handle is the status of its record, never the one derived from the age
\* of its catalog entry.
C20_HandleOverridesHeuristic ==
  \A id \in DOMAIN catalog :
    Has(ptyProcesses, id) =>
      /\ Has(activeSessions, id)
      /\ deriveStatus(id, catalog[id]) = activeSessions[id].status

\* C21: every mutating admin call (create or delete a session, patch a
\* session's metadata, create, patch or delete a project) leaves the list
\* cache invalid, so that the next list(false) is recomputed; and the cache is
\* only ever filled with the list computed from the current state, stamped
\* with the current time, and only answers while younger than the TTL of
\* 5000 ms: list(false) reports nothing older than one TTL.
AdminCall ==
  \/ \E id \in Ids, withMsg \in BOOLEAN : Create(id, withMsg)
  \/ \E id \in Ids : Delete(id)
  \/ \E id \in IndexIds, pinned, archived \in BOOLEAN :
       PatchMeta(id, pinned, archived)
  \/ \E name \in ProjectNames :
       CreateProject(name) \/ PatchProject(name) \/ DeleteProject(name)

CacheFilled ==
  /\ sessionCacheTime' # 0
  /\ sessionCache' # sessionCache \/ sessionCacheTime' # sessionCacheTime

C21_AdminCallsInvalidate ==
  [][/\ AdminCall =>
          /\ ~CacheFresh'
          /\ ListAnswer(FALSE)' = ComputeIndex'
     /\ CacheFilled =>
          /\ sessionCacheTime' = now'
          /\ sessionCache'.list = ComputeIndex'
     /\ CacheFresh' => now' - sessionCacheTime' < 5000]_vars

\* A metadata patch archived a listed session while the cache was young, the
\* clock moved on by less than the TTL, and the list no longer has it.
C21_PatchedThenListed ==
  /\ now - Epoch \in 1..4999
  /\ \E id \in DOMAIN catalog : MetaOf(id).archived
  /\ \A id \in DOMAIN catalog :
       MetaOf(id).archived => ~InList(ListAnswer(FALSE), id)
  /\ \E id \in DOMAIN catalog : catalog[id] > Epoch

\* C22: the list, recomputed or answered from the cache, has every pinned
\* entry before every unpinned one and, among entries with the same pinned
\* flag, descending lastActivity; it has an archived entry only when
\* includeArchived was asked for.
Ordered(list) ==
  \A i, j \in 1..Len(list) :
    i < j =>
      /\ list[j].pinned => list[i].pinned
      /\ list[i].pinned = list[j].pinned =>
           list[i].lastActivity >= list[j].lastActivity

C22_PinnedFirstNoArchived ==
  \A includeArchived \in BOOLEAN :
    /\ Ordered(ListAnswer(includeArchived))
    /\ ~includeArchived =>
         \A i \in 1..Len(ListAnswer(FALSE)) : ~ListAnswer(FALSE)[i].archived

\* The cache answers list(false) with the one session that is not archived;
\* list(true) has both, the pinned one first although it is the older.
C22_PinnedOlderFirst ==
  /\ CacheFresh
  /\ Len(ListAnswer(FALSE)) = 1
  /\ Len(ListAnswer(TRUE)) = 2
  /\ ListAnswer(TRUE)[1].pinned /\ ~ListAnswer(TRUE)[2].pinned
  /\ ListAnswer(TRUE)[2].archived
  /\ ListAnswer(TRUE)[1].lastActivity < ListAnswer(TRUE)[2].lastActivity

\* C23: only a frame that begins with '{' and contains both "type" and
\* "resize" is treated as a resize control frame (changes a geometry or runs
\* the multiplexer resize); every other frame, and every frame that passes
\* the test but is not valid JSON, is raw input: it is written to the process
\* once when a handle is registered, not at all otherwise, and no geometry
\* changes.
PassesTest(f) == f.brace /\ f.hasType /\ f.hasResize

GeometryTouched ==
  ptySize' # ptySize \/ tmuxSize' # tmuxSize \/ tmuxResizes' # tmuxResizes

C23_ResizeOnlyIfTested ==
  [][inSeq' # inSeq =>
       \A w \in DOMAIN ws, f \in Frames, ptyFails, tmuxFails \in BOOLEAN :
         Message(w, f, ptyFails, tmuxFails) =>
           /\ GeometryTouched => PassesTest(f)
           /\ (~PassesTest(f) \/ f.json = "invalid") =>
                /\ ~GeometryTouched
                /\ written'[inSeq + 1] =
                     IF Has(ptyProcesses, ws[w].id) THEN 1 ELSE 0]_vars

\* A frame that passed the test but was not valid JSON has been written to
\* the pty.
C23_UnparsedWritten ==
  \E m \in 1..Len(frameLog) :
    /\ PassesTest(frameLog[m])
    /\ frameLog[m].json = "invalid"
    /\ written[m] = 1

\* C24: a resize frame applies its geometry to the pty and to the multiplexer
\* independently: the multiplexer resize is run whether or not the pty resize
\* fails, and when the pty resize succeeds the pty keeps the new geometry
\* whether or not the multiplexer resize fails.
C24_ResizesIndependent ==
  [][\A w \in DOMAIN ws, f \in Frames, ptyFails, tmuxFails \in BOOLEAN :
       (Message(w, f, ptyFails, tmuxFails) /\ PassesTest(f)
          /\ f.json = "resize") =>
         /\ tmuxResizes'[ws[w].id] = tmuxResizes[ws[w].id] + 1
         /\ (Has(ptyProcesses, ws[w].id) /\ ~ptyFails) =>
              ptySize'[ptyProcesses[ws[w].id]] = f.size]_vars

\* C25: the panel's reconnect delay starts at 2000 ms and is 2000 ms again
\* whenever a connection opens, is never below 2000 ms nor above 30000 ms,
\* and the timer armed by the k-th disconnect in a row waits
\* min(2000 * 1.5^(k-1), 30000) ms; the delay kept for the next one is 1.5
\* times that, capped at 30000.
Backoff(k) ==
  IF 2000 * Pow(3, k - 1) <= 30000 * Pow(2, k - 1)
    THEN [n |-> 2000 * Pow(3, k - 1), e |-> k - 1]
    ELSE Ms(30000)

C25_ReconnectBackoff ==
  /\ AtMostMs(Ms(2000), reconnectDelay)
  /\ AtMostMs(reconnectDelay, Ms(30000))
  /\ fails = 0 => SameMs(reconnectDelay, Ms(2000))
  /\ fails >= 1 =>
       /\ SameMs(waited, Backoff(fails))
       /\ SameMs(reconnectDelay, Backoff(fails + 1))

\* The eighth disconnect in a row is the first to wait the full 30000 ms; the
\* seventh waited 22781.25 ms.
C25_CapReached ==
  /\ fails = 8
  /\ panelWs = "none"
  /\ SameMs(waited, Ms(30000))
  /\ SameMs(Backoff(7), [n |-> 91125, e |-> 2])

\* C26: while the spawn of a session is under way (its detached create has
\* not completed, or the 300 ms that follow have not elapsed), a handle is
\* registered for the session only by the timer callback that ends the wait.
SpawnPending(id) == creating[id] + timers[id] > 0

C26_HandleOnlyAfterDelay ==
  [][\A id \in Ids :
       (Registers(id) /\ SpawnPending(id)) =>
         timers'[id] = timers[id] - 1]_vars

\* C27: an observer that attaches to a session without a registered handle
\* is left with a handle or with a pending spawn: when the reattach that the
\* attach tried answers false, a spawn with resume is started instead.
C27_ReattachFalseFallsBack ==
  [][\A id \in Ids :
       (WsConnect(id) /\ ~Has(ptyProcesses, id)) =>
         \/ Has(ptyProcesses', id)
         \/ creating'[id] + timers'[id] > 0]_vars

\* C28: a chunk that is published reaches every observer of the session
\* whose channel is open, whatever the state of the other observers of the
\* set; and an observer whose channel is closing or closed is sent nothing:
\* the frames it has received never grow.
C28_OpenGetChunkClosedNothing ==
  [][/\ \A p \in DOMAIN procs, k \in 1..MaxChunk :
          (OnData(p, k) /\ Has(activeSessions, procs[p].id)
             /\ Has(wsClients, procs[p].id)) =>
            \A w \in wsClients[procs[p].id] :
              ws[w].state = "OPEN" =>
                /\ Len(ws'[w].frames) = Len(ws[w].frames) + 1
                /\ ws'[w].frames[Len(ws'[w].frames)] =
                     DataFrame(Bytes(procs[p].pos, k))
     /\ \A w \in DOMAIN ws :
          ws[w].state # "OPEN" => Len(ws'[w].frames) <= Len(ws[w].frames)]_vars

\* Two observers attached to a session at the same point of its output; one
\* is closing and still in the set, and the other, open, has received a chunk
\* since that the closing one was not sent.
C28_ClosingSkipped ==
  \E id \in DOMAIN wsClients :
    \E w1, w2 \in wsClients[id] :
      /\ ws[w1].state = "CLOSING"
      /\ ws[w2].state = "OPEN"
      /\ ws[w1].at = ws[w2].at
      /\ ws[w1].nsnap = ws[w2].nsnap
      /\ Len(ws[w2].frames) > Len(ws[w1].frames)
      /\ ws[w2].frames[Len(ws[w2].frames)].t = "data"

\* C29: detaching is idempotent: a close or an error of an observer that is
\* in no observer set any more (it was removed already, or its session was
\* deleted) changes nothing in the relay: the observer sets, the session
\* table, the handles, the ptys, the scrollback, the timestamps, the cache
\* and the other sockets stay as they are.
C29_DetachIdempotent ==
  [][\A w \in DOMAIN ws :
       ((WsClose(w) \/ WsError(w))
          /\ \A id \in DOMAIN wsClients : w \notin wsClients[id]) =>
         /\ wsClients' = wsClients
         /\ \A v \in DOMAIN ws \ {w} : ws'[v] = ws[v]
         /\ UNCHANGED << activeSessions, ptyProcesses, procs, tmuxSessions,
                         scrollbackBuffers, lastOutputTime, lastInputTime,
                         sessionCache, sessionCacheTime, creating, timers,
                         msgTimers >>]_vars

\* An observer was closed after an error had already removed it from its
\* set, while another observer of the session is still attached and open.
C29_DetachedTwice ==
  \E w \in lateDetach :
    /\ ws[w].state = "CLOSED"
    /\ Has(wsClients, ws[w].id)
    /\ \E u \in wsClients[ws[w].id] : ws[u].state = "OPEN"

\* C30: shutdown closes every observer channel and kills every pty
\* attachment, and leaves the backend sessions alone; a backend session ends
\* only by the delete of its id (or of itself, when the program in it ends).
C30_ShutdownSparesBackend ==
  [][/\ Shutdown =>
          /\ \A w \in DOMAIN ws : ws'[w].state # "OPEN"
          /\ \A p \in DOMAIN procs : procs'[p].state # "live"
          /\ tmuxSessions' = tmuxSessions
     /\ \A id \in Ids :
          (id \in tmuxSessions /\ id \notin tmuxSessions') =>
            Delete(id) \/ BackendExit(id) \/ Connection(id, TRUE)]_vars

\* C31: the initial message of a create is written to the session's process
\* exactly once, whenever the detached create completes and the delayed
\* attach runs: when the 1.5 s timer of the message fires, the message (input
\* 0) is written.
C31_InitialMessageWritten ==
  [][\A id \in Ids : MsgTimer(id) => written'[0] = written[0] + 1]_vars

\* C32: an input frame written to the process of a session marks the session
\* running and stamps lastActivity and the input time, and leaves the time of
\* the last output alone: when that time is more than the idle threshold
\* ago, the next sweep turns the session idle again.
C32_InputDoesNotRestartIdle ==
  [][\A w \in DOMAIN ws :
       (WsMessage(w) /\ Has(ptyProcesses, ws[w].id)
          /\ Has(activeSessions, ws[w].id)) =>
         LET id == ws[w].id
         IN  /\ activeSessions'[id].status = "running"
             /\ activeSessions'[id].lastActivity = now
             /\ Has(lastInputTime', id) /\ lastInputTime'[id] = now
             /\ lastOutputTime' = lastOutputTime
             /\ (Has(lastOutputTime, id) /\ now - lastOutputTime[id] > 30000) =>
                  Swept'[id].status = "idle"]_vars

\* A session took input more than 30 s after its last output, and is idle:
\* the sweep that followed the input has turned it idle again.
C32_IdleAfterInput ==
  \E id \in DOMAIN activeSessions :
    /\ activeSessions[id].status = "idle"
    /\ Has(lastInputTime, id) /\ Has(lastOutputTime, id)
    /\ lastInputTime[id] - lastOutputTime[id] > 30000
    /\ written[1] = 1

\* C33: every id with a registered process handle has a session record.
C33_HandleHasRecord ==
  \A id \in DOMAIN ptyProcesses : Has(activeSessions, id)

\* C34: the exit event of a pty that is not the registered handle of its
\* session leaves the registration, the last-output time and the session's
\* record as they are.
C34_ExitReleasesOwnHandle ==
  [][\A p \in DOMAIN procs, c \in ExitCodes :
       (OnExit(p, c) /\ Has(ptyProcesses, procs[p].id)
          /\ ptyProcesses[procs[p].id] # p) =>
         /\ ptyProcesses' = ptyProcesses
         /\ lastOutputTime' = lastOutputTime
         /\ activeSessions' = activeSessions]_vars

\* C35: a sweep does not set a session to error while its spawn is under way
\* (detached create issued, delayed attach not yet run).
C35_SweepSparesPendingSpawn ==
  [][Sweep =>
       \A id \in DOMAIN activeSessions :
         (SpawnPending(id) /\ activeSessions[id].status = "running") =>
           activeSessions'[id].status = "running"]_vars

\* C36: the sweep turns a running session idle no earlier than 30 s after
\* its handle was registered. No handle is registered before the relay
\* starts (at Epoch), so no sweep within 30 s of the start turns a session
\* idle.
C36_NoIdleBeforeThreshold ==
  [][Sweep =>
       \A id \in DOMAIN activeSessions :
         (activeSessions[id].status = "running"
            /\ activeSessions'[id].status = "idle") =>
           now - Epoch > 30000]_vars

\* C37: a connection to the stream of an id that has been deleted (the
\* reconnect of a former observer) spawns nothing and creates neither a
\* session record nor a scrollback buffer for the id.
FormerObserver(id) ==
  \E w \in DOMAIN ws :
    ws[w].id = id /\ ws[w].state # "OPEN" /\ ~Member(w)

C37_ReconnectAfterDeleteInert ==
  [][\A id \in Ids :
       (WsConnect(id) /\ id \in deleted /\ FormerObserver(id)) =>
         /\ creating' = creating
         /\ Len(procs') = Len(procs)
         /\ ~Has(activeSessions, id) => ~Has(activeSessions', id)
         /\ ~Has(scrollbackBuffers, id) => ~Has(scrollbackBuffers', id)]_vars

\* C38: the exit notice is part of the output history of the session: an
\* observer that attaches after a pty of the session has exited (and the
\* session was not deleted since) gets the notice in its replay.
ExitPublished(id) ==
  /\ id \notin deleted
  /\ \E p \in DOMAIN procs : procs[p].id = id /\ procs[p].state = "exited"

C38_ExitNoticeReplayed ==
  [][\A id \in Ids :
       (WsConnect(id) /\ ExitPublished(id)) =>
         \E i \in 1..Len(ws'[Len(ws')].frames) :
           ws'[Len(ws')].frames[i].t = "exit"]_vars

\* C39: a frame that parses as JSON with type "resize" is never written to
\* the process as raw input, whatever its cols and rows and whether or not
\* the resize of the pty succeeds.
C39_ResizeNeverRaw ==
  [][\A w \in DOMAIN ws, f \in Frames, ptyFails, tmuxFails \in BOOLEAN :
       (Message(w, f, ptyFails, tmuxFails)
          /\ f.json \in {"resize", "resizeNoSize"}) =>
         written' = written]_vars

\* C40: a panel has at most one socket that is connecting or open and at
\* most one pending reconnect timer; once the panel is destroyed it has
\* neither, and no connection is started but for a panel that exists.
C40_OneSocketOneTimer ==
  /\ liveSockets <= 1
  /\ pendingTimers <= 1
  /\ liveSockets + pendingTimers <= 1
  /\ ~panelExists => liveSockets = 0 /\ pendingTimers = 0

\* A panel was destroyed while its reconnect timer was pending, after
\* disconnects in a row; nothing of it is left.
C40_DestroyedWhileWaiting ==
  /\ ~panelExists
  /\ fails >= 2
  /\ liveSockets = 0
  /\ pendingTimers = 0
====
